---- MODULE Spec2Model ----
(***************************************************************************)
(* Model of the assistant bot of lesson8_ht1.py: the Field/Record/         *)
(* AddressBook data model, the pickle persistence and the command loop of  *)
(* main().  Strings are TLA+ strings, taken apart character by character   *)
(* where the code inspects them (split, isdigit, strptime).                *)
(***************************************************************************)
EXTENDS Integers, Sequences, FiniteSets, TLC

\* ------------------------------------------------------------------ bounds
\* no record is grown beyond MaxPhones phones; at most MaxRuns runs of main()
MaxPhones == 2
MaxRuns == 2

\* ------------------------------------------------------------ string tools
Char(s, i) == SubSeq(s, i, i)

AsciiDigits == {"0", "1", "2", "3", "4", "5", "6", "7", "8", "9"}

\* characters outside ASCII for which Python's str.isdigit() is True
\* (superscript two, U+00B2, has Numeric_Type=Digit)
OtherDigits == {"²"}

Whitespace == {" "}

\* str.isdigit(): non-empty and every character is a digit character
isdigit(s) ==
    /\ Len(s) > 0
    /\ \A i \in 1..Len(s) : Char(s, i) \in (AsciiDigits \cup OtherDigits)

\* the string is made of the characters 0..9 only
IsAsciiDigits(s) ==
    /\ Len(s) > 0
    /\ \A i \in 1..Len(s) : Char(s, i) \in AsciiDigits

RECURSIVE SplitWords(_, _, _, _)
SplitWords(s, i, cur, acc) ==
    IF i > Len(s)
    THEN (IF cur = "" THEN acc ELSE Append(acc, cur))
    ELSE IF Char(s, i) \in Whitespace
         THEN SplitWords(s, i + 1, "", IF cur = "" THEN acc ELSE Append(acc, cur))
         ELSE SplitWords(s, i + 1, cur \o Char(s, i), acc)

\* str.split(): the maximal runs of non-whitespace characters
split(s) == SplitWords(s, 1, "", <<>>)

RECURSIVE SplitFields(_, _, _, _, _)
SplitFields(s, sep, i, cur, acc) ==
    IF i > Len(s)
    THEN Append(acc, cur)
    ELSE IF Char(s, i) = sep
         THEN SplitFields(s, sep, i + 1, "", Append(acc, cur))
         ELSE SplitFields(s, sep, i + 1, cur \o Char(s, i), acc)

RECURSIVE join(_, _)
join(sep, strs) ==
    IF strs = <<>> THEN ""
    ELSE IF Len(strs) = 1 THEN strs[1]
    ELSE strs[1] \o sep \o join(sep, Tail(strs))

DigitVal(c) ==
    CASE c = "0" -> 0 [] c = "1" -> 1 [] c = "2" -> 2 [] c = "3" -> 3
      [] c = "4" -> 4 [] c = "5" -> 5 [] c = "6" -> 6 [] c = "7" -> 7
      [] c = "8" -> 8 [] c = "9" -> 9

RECURSIVE ToInt(_)
ToInt(s) ==
    IF Len(s) = 0 THEN 0
    ELSE 10 * ToInt(SubSeq(s, 1, Len(s) - 1)) + DigitVal(Char(s, Len(s)))

DigitChar(n) == SubSeq("0123456789", n + 1, n + 1)

RECURSIVE IntToStr(_)
IntToStr(n) ==
    IF n < 10 THEN DigitChar(n)
    ELSE IntToStr(n \div 10) \o DigitChar(n % 10)

Pad2(n) == IF n < 10 THEN "0" \o DigitChar(n) ELSE IntToStr(n)

\* ------------------------------------------------------------------- dates
\* a date is <<year, month, day>>; a datetime adds the seconds since midnight
IsLeap(y) == (y % 4 = 0) /\ ((y % 100 # 0) \/ (y % 400 = 0))

DaysInMonth(y, m) ==
    IF m = 2 THEN (IF IsLeap(y) THEN 29 ELSE 28)
    ELSE IF m \in {4, 6, 9, 11} THEN 30 ELSE 31

RECURSIVE DaysBeforeMonth(_, _)
DaysBeforeMonth(y, m) ==
    IF m = 1 THEN 0 ELSE DaysBeforeMonth(y, m - 1) + DaysInMonth(y, m - 1)

\* date.toordinal(): 1 for 0001-01-01
toordinal(dt) ==
    LET y1 == dt[1] - 1
    IN  y1 * 365 + (y1 \div 4) - (y1 \div 100) + (y1 \div 400)
        + DaysBeforeMonth(dt[1], dt[2]) + dt[3]

\* datetime.strptime(value, "%d.%m.%Y"): day and month of one or two digits,
\* year of four digits, and the date must exist
strptime(value) ==
    LET f == SplitFields(value, ".", 1, "", <<>>)
        shape == /\ Len(f) = 3
                 /\ Len(f[1]) \in {1, 2} /\ IsAsciiDigits(f[1])
                 /\ Len(f[2]) \in {1, 2} /\ IsAsciiDigits(f[2])
                 /\ Len(f[3]) = 4 /\ IsAsciiDigits(f[3])
    IN  IF ~shape THEN [ok |-> FALSE, date |-> <<>>]
        ELSE LET d == ToInt(f[1])
                 m == ToInt(f[2])
                 y == ToInt(f[3])
             IN  IF /\ m \in 1..12
                    /\ y >= 1
                    /\ d >= 1
                    /\ d <= DaysInMonth(y, m)
                 THEN [ok |-> TRUE, date |-> <<y, m, d>>]
                 ELSE [ok |-> FALSE, date |-> <<>>]

\* datetime.strftime("%d.%m.%Y")
strftime(dt) == Pad2(dt[3]) \o "." \o Pad2(dt[2]) \o "." \o IntToStr(dt[1])

\* datetime.replace(year=y): fails when the day does not exist in year y
replace_year(dt, y) ==
    IF dt[3] <= DaysInMonth(y, dt[2])
    THEN [ok |-> TRUE, date |-> <<y, dt[2], dt[3]>>]
    ELSE [ok |-> FALSE, date |-> <<>>]

\* ------------------------------------------------------------------ fields
\* Phone.__init__: the value is kept iff it has 10 characters, all digits
Phone(phone_number) == Len(phone_number) = 10 /\ isdigit(phone_number)

PhoneError == "Phone number must be 10 digits."

\* Birthday.__init__: the parsed date, or failure
Birthday(value) == strptime(value)

BirthdayError == "Invalid date format. Use DD.MM.YYYY"

\* ------------------------------------------------------------------ Record
\* a record is [name, phones, birthday]; birthday <<>> is None
Record(name) == [name |-> name, phones |-> <<>>, birthday |-> <<>>]

add_phone(phones, phone_number) ==
    IF Phone(phone_number)
    THEN [err |-> "", phones |-> Append(phones, phone_number)]
    ELSE [err |-> PhoneError, phones |-> phones]

remove_phone_first(phones, phone_number) ==
    LET hits == {i \in 1..Len(phones) : phones[i] = phone_number}
    IN  IF hits = {} THEN phones
        ELSE LET k == CHOOSE i \in hits : \A j \in hits : i <= j
             IN  SubSeq(phones, 1, k - 1) \o SubSeq(phones, k + 1, Len(phones))

remove_phone(phones, phone_number) ==
    SelectSeq(phones, LAMBDA p : p # phone_number)

find_phone(phones, phone_number) ==
    \E i \in 1..Len(phones) : phones[i] = phone_number

edit_phone_keep_old(phones, old_number, new_number) ==
    IF ~find_phone(phones, old_number)
    THEN [err |-> "Old number not found.", phones |-> phones]
    ELSE add_phone(phones, new_number)

edit_phone(phones, old_number, new_number) ==
    IF ~find_phone(phones, old_number)
    THEN [err |-> "Old number not found.", phones |-> phones]
    ELSE LET added == add_phone(phones, new_number)
         IN  IF added.err # "" THEN added
             ELSE [err |-> "", phones |-> remove_phone(added.phones, old_number)]

get_birthday(record) ==
    IF record.birthday # <<>> THEN strftime(record.birthday)
    ELSE "No birthday set"

\* Record.__str__
RecordStr(record) ==
    "Contact name: " \o record.name \o ", phones: "
        \o join("; ", record.phones) \o ", Birthday: " \o get_birthday(record)

\* ------------------------------------------------------------- AddressBook
\* the book is the sequence of its records in insertion order, names unique
IndexOf(bk, name) ==
    IF \E i \in 1..Len(bk) : bk[i].name = name
    THEN CHOOSE i \in 1..Len(bk) : bk[i].name = name
    ELSE 0

Has(bk, name) == IndexOf(bk, name) # 0

Get(bk, name) == bk[IndexOf(bk, name)]

add_record(bk, record) ==
    IF Has(bk, record.name)
    THEN [bk EXCEPT ![IndexOf(bk, record.name)] = record]
    ELSE Append(bk, record)

\* datetime comparison a <= b, a datetime being a day ordinal and the
\* seconds since midnight
DatetimeLeq(aord, atod, bord, btod) ==
    aord < bord \/ (aord = bord /\ atod <= btod)

\* today <= birthday_this_year <= today + timedelta(days=7), on datetimes:
\* the birthday is at midnight, today carries the time of day
InWindow(today, bty) ==
    LET t == toordinal(today.date)
        b == toordinal(bty)
    IN  /\ DatetimeLeq(t, today.tod, b, 0)
        /\ DatetimeLeq(b, 0, t + 7, today.tod)

get_upcoming_birthdays(bk, today) ==
    LET withBd == SelectSeq(bk, LAMBDA r : r.birthday # <<>>)
        anchored(r) == replace_year(r.birthday, today.date[1])
    IN  IF \E i \in 1..Len(withBd) : ~anchored(withBd[i]).ok
        THEN [err |-> "day is out of range for month", result |-> <<>>]
        ELSE LET hits == SelectSeq(withBd,
                             LAMBDA r : InWindow(today, anchored(r).date))
             IN  [err |-> "",
                  result |-> [i \in 1..Len(hits) |->
                                 <<hits[i].name, get_birthday(hits[i])>>]]

ErrorPrefix == "An error occurred: "

add_contact_always_added(args, bk) ==
    IF Len(args) < 2
    THEN [book |-> bk, msg |-> "Not enough arguments. Usage: add <name> <phone>"]
    ELSE LET name == args[1]
             phone == args[2]
         IN  IF ~Has(bk, name)
             THEN [book |-> add_record(bk, Record(name)), msg |-> "Contact added."]
             ELSE LET added == add_phone(Get(bk, name).phones, phone)
                  IN  IF added.err # ""
                      THEN [book |-> bk, msg |-> ErrorPrefix \o added.err]
                      ELSE [book |-> [bk EXCEPT ![IndexOf(bk, name)].phones =
                                          added.phones],
                            msg |-> "Contact added."]

\* AddressBook.add_contact under input_error
add_contact(args, bk) ==
    IF Len(args) < 2
    THEN [book |-> bk, msg |-> "Not enough arguments. Usage: add <name> <phone>"]
    ELSE LET name == args[1]
             phone == args[2]
         IN  IF ~Has(bk, name)
             THEN [book |-> add_record(bk, Record(name)), msg |-> "Contact added."]
             ELSE LET added == add_phone(Get(bk, name).phones, phone)
                  IN  IF added.err # ""
                      THEN [book |-> bk, msg |-> ErrorPrefix \o added.err]
                      ELSE [book |-> [bk EXCEPT ![IndexOf(bk, name)].phones =
                                          added.phones],
                            msg |-> "Contact updated."]

\* add_birthday under input_error
add_birthday(args, bk) ==
    IF Len(args) < 2
    THEN [book |-> bk,
          msg |-> ErrorPrefix \o "not enough values to unpack (expected 2, got "
                      \o IntToStr(Len(args)) \o ")"]
    ELSE IF Len(args) > 2
    THEN [book |-> bk,
          msg |-> ErrorPrefix \o "too many values to unpack (expected 2)"]
    ELSE LET name == args[1]
             parsed == Birthday(args[2])
         IN  IF ~Has(bk, name)
             THEN [book |-> bk, msg |-> "Contact not found."]
             ELSE IF ~parsed.ok
             THEN [book |-> bk, msg |-> ErrorPrefix \o BirthdayError]
             ELSE [book |-> [bk EXCEPT ![IndexOf(bk, name)].birthday = parsed.date],
                   msg |-> "Birthday added."]

\* show_birthday under input_error
show_birthday(args, bk) ==
    IF Len(args) < 1 THEN ErrorPrefix \o "list index out of range"
    ELSE IF ~Has(bk, args[1]) THEN "Contact not found."
    ELSE IF Get(bk, args[1]).birthday = <<>> THEN "Birthday not set."
    ELSE args[1] \o "'s birthday is on " \o get_birthday(Get(bk, args[1])) \o "."

\* birthdays under input_error
birthdays(bk, today) ==
    LET up == get_upcoming_birthdays(bk, today)
    IN  IF up.err # "" THEN ErrorPrefix \o up.err
        ELSE IF up.result = <<>> THEN "No upcoming birthdays."
        ELSE join("\n", [i \in 1..Len(up.result) |->
                            up.result[i][1] \o " on " \o up.result[i][2]])

\* parse_input: the first word and the rest; no first word is an IndexError
parse_input(user_input) ==
    LET parts == split(user_input)
    IN  IF parts = <<>>
        THEN [ok |-> FALSE, command |-> "", args |-> <<>>]
        ELSE [ok |-> TRUE, command |-> parts[1], args |-> Tail(parts)]

\* ------------------------------------------------------------- persistence
\* the pickle byte stream as a sequence of string tokens: a protocol
\* header, a frame with the length of its body, the records, STOP
RECURSIVE PickleRecords(_)
PickleRecords(bk) ==
    IF bk = <<>> THEN <<>>
    ELSE LET r == bk[1]
         IN  <<"REC", r.name, "PHONES", IntToStr(Len(r.phones))>>
             \o r.phones
             \o (IF r.birthday = <<>> THEN <<"NONE">>
                 ELSE <<"DATETIME", IntToStr(r.birthday[1]),
                        IntToStr(r.birthday[2]), IntToStr(r.birthday[3])>>)
             \o PickleRecords(Tail(bk))

pickle_dump(bk) ==
    LET body == PickleRecords(bk) \o <<"STOP">>
    IN  <<"PROTO", "4", "FRAME", IntToStr(Len(body))>> \o body

RECURSIVE UnpickleRecords(_, _, _)
UnpickleRecords(b, i, acc) ==
    IF b[i] = "STOP" THEN acc
    ELSE LET k == ToInt(b[i + 3])
             j == i + 4 + k
             hasBd == b[j] = "DATETIME"
             bd == IF hasBd
                   THEN <<ToInt(b[j + 1]), ToInt(b[j + 2]), ToInt(b[j + 3])>>
                   ELSE <<>>
             r == [name |-> b[i + 1],
                   phones |-> SubSeq(b, i + 4, i + 3 + k),
                   birthday |-> bd]
         IN  UnpickleRecords(b, IF hasBd THEN j + 4 ELSE j + 1, Append(acc, r))

\* pickle.load: the object, or the exception it raises
pickle_load(bytes) ==
    IF Len(bytes) = 0 THEN [exc |-> "EOFError", book |-> <<>>]
    ELSE IF bytes[1] # "PROTO" THEN [exc |-> "UnpicklingError", book |-> <<>>]
    ELSE IF Len(bytes) = 1 THEN [exc |-> "UnpicklingError", book |-> <<>>]
    ELSE IF Len(bytes) = 2 THEN [exc |-> "EOFError", book |-> <<>>]
    ELSE IF Len(bytes) = 3 THEN [exc |-> "UnpicklingError", book |-> <<>>]
    ELSE IF Len(bytes) - 4 < ToInt(bytes[4])
    THEN [exc |-> "UnpicklingError", book |-> <<>>]
    ELSE [exc |-> "", book |-> UnpickleRecords(bytes, 5, <<>>)]

\* the file addressbook.pkl: absent, or present with its content
NoFile == [exists |-> FALSE, bytes |-> <<>>]

save_data_empty(bk) == [exists |-> TRUE, bytes |-> pickle_dump(<<>>)]

save_data(bk) == [exists |-> TRUE, bytes |-> pickle_dump(bk)]

\* load_data: FileNotFoundError and pickle.PickleError give a fresh book,
\* any other exception propagates
load_data(f) ==
    IF ~f.exists THEN [exc |-> "", book |-> <<>>]
    ELSE LET r == pickle_load(f.bytes)
         IN  IF r.exc = "UnpicklingError" THEN [exc |-> "", book |-> <<>>]
             ELSE r

\* ------------------------------------------------------------------ inputs
\* a book an earlier run may have saved
SampleBook == <<[name |-> "John", phones |-> <<"1234567890">>, birthday |-> <<>>]>>

\* addressbook.pkl before the first run: absent, empty, or cut short
InitFiles ==
    { NoFile,
      [exists |-> TRUE, bytes |-> <<>>],
      [exists |-> TRUE, bytes |-> SubSeq(pickle_dump(SampleBook), 1, 6)] }

Lines ==
    { "", "   ", "hello", "close", "exit", "all", "dance",
      "add", "add John", "add John 1234567890", "add John 0987654321",
      "add John ²²²²²²²²²²", "add John 12345", "add John 12345abcde",
      "add Ann 12345",
      "change John 1234567890",
      "change John 1234567890 0987654321",
      "change John 0987654321 1234567890",
      "change John 1234567890 1234567890",
      "change John 1234567890 12345",
      "change Bob 1234567890 0987654321",
      "change John 1234567890 0987654321 now",
      "phone", "phone John", "phone Ann",
      "add-birthday John 25.02.1990", "add-birthday John 04.03.1990",
      "add-birthday John 29.02.2000", "add-birthday John 24.02.1990",
      "add-birthday Ann 1.3.1990", "add-birthday John 31.04.2000",
      "add-birthday John", "add-birthday Bob 25.02.1990",
      "add-birthday John 25.02.1990 please",
      "show-birthday", "show-birthday John", "show-birthday Ann",
      "birthdays" }

\* the readings of datetime.today() tried: a common and a leap year, at
\* midnight and at noon
Todays ==
    { [date |-> d, tod |-> t] :
        d \in {<<2023, 2, 25>>, <<2024, 2, 25>>}, t \in {0, 43200} }

NoToday == [date |-> <<>>, tod |-> 0]

\* the smaller vocabulary used when main() is run several times in a row
RunLines ==
    { "", "hello", "close", "all", "dance",
      "add John 1234567890", "add Ann 12345",
      "change John 1234567890 0987654321",
      "phone John", "add-birthday John 29.02.2000", "show-birthday John",
      "birthdays" }

RunTodays == { [date |-> <<2024, 2, 25>>, tod |-> 43200] }

Parsed == [l \in Lines \cup RunLines |-> parse_input(l)]

\* ------------------------------------------------------------------- state
VARIABLES
    book,      \* the AddressBook of the running (or last) process
    file,      \* addressbook.pkl
    pc,        \* "start", "running", "exited", "load_failed", "crashed"
    runs,      \* runs of main() started so far
    line,      \* the last line read by input()
    out,       \* what the last step printed, line by line
    today,     \* datetime.today() as read by the last birthdays command
    upcoming   \* the list get_upcoming_birthdays returned to it

vars == <<book, file, pc, runs, line, out, today, upcoming>>

Init ==
    /\ book = <<>>
    /\ file \in InitFiles
    /\ pc = "start"
    /\ runs = 0
    /\ line = ""
    /\ out = <<>>
    /\ today = NoToday
    /\ upcoming = <<>>

WithinBounds(bk) == \A i \in 1..Len(bk) : Len(bk[i].phones) <= MaxPhones

\* main() up to the first input(): load_data, then the welcome
Launch ==
    /\ runs' = runs + 1
    /\ LET r == load_data(file)
       IN  IF r.exc = ""
           THEN /\ book' = r.book
                /\ pc' = "running"
                /\ out' = <<"Welcome to the assistant bot!">>
           ELSE /\ book' = <<>>
                /\ pc' = "load_failed"
                /\ out' = <<r.exc>>
    /\ line' = ""
    /\ today' = NoToday
    /\ upcoming' = <<>>
    /\ UNCHANGED file

\* the first run of main()
Start ==
    /\ pc = "start"
    /\ Launch

\* main() is run again after the previous process has ended
StartAgain ==
    /\ pc \in {"exited", "load_failed", "crashed"}
    /\ runs < MaxRuns
    /\ Launch

\* a step of the loop that prints and goes on to the next input()
Reply(l, bk, printed) ==
    /\ line' = l
    /\ book' = bk
    /\ out' = printed
    /\ pc' = "running"
    /\ today' = NoToday
    /\ upcoming' = <<>>
    /\ UNCHANGED <<file, runs>>

\* a step of the loop out of which an exception propagates
Raise(l, exc) ==
    /\ line' = l
    /\ out' = <<exc>>
    /\ pc' = "crashed"
    /\ today' = NoToday
    /\ upcoming' = <<>>
    /\ UNCHANGED <<book, file, runs>>

\* parse_input fails on a line without a word
CmdNoWord(L) ==
    /\ pc = "running"
    /\ \E l \in L :
        /\ ~Parsed[l].ok
        /\ Raise(l, "IndexError: list index out of range")

CmdExit(L) ==
    /\ pc = "running"
    /\ \E l \in L :
        /\ Parsed[l].ok
        /\ Parsed[l].command \in {"close", "exit"}
        /\ line' = l
        /\ out' = <<"Good bye!">>
        /\ file' = save_data(book)
        /\ pc' = "exited"
        /\ today' = NoToday
        /\ upcoming' = <<>>
        /\ UNCHANGED <<book, runs>>

CmdHello(L) ==
    /\ pc = "running"
    /\ \E l \in L :
        /\ Parsed[l].ok
        /\ Parsed[l].command = "hello"
        /\ Reply(l, book, <<"How can I help you?">>)

CmdAdd(L) ==
    /\ pc = "running"
    /\ \E l \in L :
        /\ Parsed[l].ok
        /\ Parsed[l].command = "add"
        /\ LET r == add_contact(Parsed[l].args, book)
           IN  /\ WithinBounds(r.book)
               /\ Reply(l, r.book, <<r.msg>>)

CmdChange(L) ==
    /\ pc = "running"
    /\ \E l \in L :
        /\ Parsed[l].ok
        /\ Parsed[l].command = "change"
        /\ LET args == Parsed[l].args
           IN  IF Len(args) < 3
               THEN Reply(l, book, <<"Not enough arguments. Usage: change <name> <old_phone> <new_phone>">>)
               ELSE IF Len(args) > 3
               THEN Raise(l, "ValueError: too many values to unpack (expected 3)")
               ELSE IF ~Has(book, args[1])
               THEN Reply(l, book, <<"Contact not found.">>)
               ELSE LET r == edit_phone(Get(book, args[1]).phones, args[2], args[3])
                    IN  IF r.err # ""
                        THEN Raise(l, "ValueError: " \o r.err)
                        ELSE Reply(l,
                                   [book EXCEPT ![IndexOf(book, args[1])].phones = r.phones],
                                   <<"Phone number updated.">>)

CmdPhone(L) ==
    /\ pc = "running"
    /\ \E l \in L :
        /\ Parsed[l].ok
        /\ Parsed[l].command = "phone"
        /\ LET args == Parsed[l].args
           IN  IF Len(args) < 1
               THEN Reply(l, book, <<"Not enough arguments. Usage: phone <name>">>)
               ELSE IF Has(book, args[1])
               THEN Reply(l, book, <<"Phones for " \o args[1] \o ": "
                                       \o join(", ", Get(book, args[1]).phones)>>)
               ELSE Reply(l, book, <<"Contact not found.">>)

CmdAll(L) ==
    /\ pc = "running"
    /\ \E l \in L :
        /\ Parsed[l].ok
        /\ Parsed[l].command = "all"
        /\ Reply(l, book,
                 [i \in 1..Len(book) |-> book[i].name \o ": " \o RecordStr(book[i])])

CmdAddBirthday(L) ==
    /\ pc = "running"
    /\ \E l \in L :
        /\ Parsed[l].ok
        /\ Parsed[l].command = "add-birthday"
        /\ LET r == add_birthday(Parsed[l].args, book)
           IN  Reply(l, r.book, <<r.msg>>)

CmdShowBirthday(L) ==
    /\ pc = "running"
    /\ \E l \in L :
        /\ Parsed[l].ok
        /\ Parsed[l].command = "show-birthday"
        /\ Reply(l, book, <<show_birthday(Parsed[l].args, book)>>)

CmdBirthdays(L, T) ==
    /\ pc = "running"
    /\ \E l \in L, t \in T :
        /\ Parsed[l].ok
        /\ Parsed[l].command = "birthdays"
        /\ line' = l
        /\ out' = <<birthdays(book, t)>>
        /\ today' = t
        /\ upcoming' = get_upcoming_birthdays(book, t).result
        /\ pc' = "running"
        /\ UNCHANGED <<book, file, runs>>

Commands ==
    {"close", "exit", "hello", "add", "change", "phone", "all",
     "add-birthday", "show-birthday", "birthdays"}

CmdInvalid(L) ==
    /\ pc = "running"
    /\ \E l \in L :
        /\ Parsed[l].ok
        /\ Parsed[l].command \notin Commands
        /\ Reply(l, book, <<"Invalid command.">>)

Next ==
    \/ Start
    \/ CmdNoWord(Lines)
    \/ CmdExit(Lines)
    \/ CmdHello(Lines)
    \/ CmdAdd(Lines)
    \/ CmdChange(Lines)
    \/ CmdPhone(Lines)
    \/ CmdAll(Lines)
    \/ CmdAddBirthday(Lines)
    \/ CmdShowBirthday(Lines)
    \/ CmdBirthdays(Lines, Todays)
    \/ CmdInvalid(Lines)

Spec == Init /\ [][Next]_vars

\* several runs of main() in a row, over the smaller vocabulary
NextRuns ==
    \/ Start
    \/ StartAgain
    \/ CmdNoWord(RunLines)
    \/ CmdExit(RunLines)
    \/ CmdHello(RunLines)
    \/ CmdAdd(RunLines)
    \/ CmdChange(RunLines)
    \/ CmdPhone(RunLines)
    \/ CmdAll(RunLines)
    \/ CmdAddBirthday(RunLines)
    \/ CmdShowBirthday(RunLines)
    \/ CmdBirthdays(RunLines, RunTodays)
    \/ CmdInvalid(RunLines)

SpecRuns == Init /\ [][NextRuns]_vars

TypeOK ==
    /\ pc \in {"start", "running", "exited", "load_failed", "crashed"}
    /\ runs \in 0..MaxRuns
    /\ line \in Lines \cup RunLines
    /\ WithinBounds(book)

\* ------------------------------------------------------------- properties
Cmd(l) == Parsed[l].command

Args(l) == Parsed[l].args

PhonesOf(bk, name) == Get(bk, name).phones

Range(f) == {f[i] : i \in DOMAIN f}

\* the step reads an add line with a name and a phone
AddStep ==
    /\ pc = "running"
    /\ Parsed[line'].ok
    /\ Cmd(line') = "add"
    /\ Len(Args(line')) >= 2

OthersUnchanged(name) ==
    \A i \in 1..Len(book) : book[i].name # name => book'[i] = book[i]

AddsNewRecord(name) ==
    /\ out' = <<"Contact added.">>
    /\ Len(book') = Len(book) + 1
    /\ book'[Len(book')].name = name

AppendsPhone(name, phone) ==
    /\ out' = <<"Contact updated.">>
    /\ Len(book') = Len(book)
    /\ PhonesOf(book', name) = Append(PhonesOf(book, name), phone)
    /\ Len(PhonesOf(book', name)) = Len(PhonesOf(book, name)) + 1
    /\ Get(book', name).birthday = Get(book, name).birthday

\* C2 as stated: add (name, phone) on a new name creates and inserts the
\* record and answers "Contact added."; on an existing name it appends
\* phone, answers "Contact updated." and the phone list is one longer; the
\* other records are unchanged in both cases.
C2_AddOrUpdate ==
    [][AddStep =>
        LET name == Args(line')[1]
            phone == Args(line')[2]
        IN  /\ OthersUnchanged(name)
            /\ IF ~Has(book, name) THEN AddsNewRecord(name)
               ELSE AppendsPhone(name, phone)]_vars

\* C2 amended: as C2, but on an existing name the phone is appended and
\* "Contact updated." answered only when the phone passes the Phone check
\* (10 characters, all digits); otherwise the error message is answered and
\* the book is unchanged.
C2_AddOrUpdateValid ==
    [][AddStep =>
        LET name == Args(line')[1]
            phone == Args(line')[2]
        IN  /\ OthersUnchanged(name)
            /\ IF ~Has(book, name) THEN AddsNewRecord(name)
               ELSE IF Phone(phone) THEN AppendsPhone(name, phone)
               ELSE /\ out' = <<ErrorPrefix \o PhoneError>>
                    /\ book' = book]_vars

\* an add on an existing name has appended, next to another record
C2_Witness ==
    /\ pc = "running"
    /\ Cmd(line) = "add"
    /\ out = <<"Contact updated.">>
    /\ Len(book) = 2
    /\ Len(Args(line)) >= 2
    /\ find_phone(PhonesOf(book, Args(line)[1]), Args(line)[2])

\* the step reads a change line of three arguments for a known contact
ChangeStep ==
    /\ pc = "running"
    /\ Parsed[line'].ok
    /\ Cmd(line') = "change"
    /\ Len(Args(line')) = 3
    /\ Has(book, Args(line')[1])

\* C5: edit_phone(old, new) with new a valid phone fails with "Old number
\* not found." when no phone equals old, and otherwise, when old # new,
\* leaves a list without old and with new.
C5_EditPhone ==
    [][(ChangeStep /\ Phone(Args(line')[3])) =>
        LET name == Args(line')[1]
            old == Args(line')[2]
            new == Args(line')[3]
        IN  IF \A i \in 1..Len(PhonesOf(book, name)) :
                   PhonesOf(book, name)[i] # old
            THEN /\ pc' = "crashed"
                 /\ out' = <<"ValueError: Old number not found.">>
                 /\ book' = book
            ELSE old # new =>
                 /\ pc' = "running"
                 /\ old \notin Range(PhonesOf(book', name))
                 /\ new \in Range(PhonesOf(book', name))]_vars

\* a change with old # new has replaced the phone
C5_Witness ==
    /\ pc = "running"
    /\ Cmd(line) = "change"
    /\ out = <<"Phone number updated.">>
    /\ Args(line)[2] # Args(line)[3]
    /\ Args(line)[3] \in Range(PhonesOf(book, Args(line)[1]))
    /\ Args(line)[2] \notin Range(PhonesOf(book, Args(line)[1]))

C1_NoErrorLeavesLoop == pc # "crashed"

\* C4: load_data never fails.
C4_LoadNeverFails == pc # "load_failed"

\* C9: every stored phone is a string of exactly 10 decimal digits.
C9_PhonesTenDecimalDigits ==
    \A i \in 1..Len(book) : \A j \in 1..Len(book[i].phones) :
        /\ Len(book[i].phones[j]) = 10
        /\ IsAsciiDigits(book[i].phones[j])

\* C10: after add (name, phone) answers "Contact added." or "Contact
\* updated.", the record under name contains phone.
C10_AddedPhoneStored ==
    (/\ pc = "running"
     /\ Cmd(line) = "add"
     /\ (out = <<"Contact added.">> \/ out = <<"Contact updated.">>)) =>
        /\ Has(book, Args(line)[1])
        /\ find_phone(PhonesOf(book, Args(line)[1]), Args(line)[2])

\* the birthdays command has just been answered
AfterBirthdays == pc = "running" /\ Cmd(line) = "birthdays"

ExistsInYear(bd, y) == bd[3] <= DaysInMonth(y, bd[2])

\* d is one of the 8 calendar days today .. today + 7
DateInWindow(d, t) ==
    toordinal(t) <= toordinal(d) /\ toordinal(d) <= toordinal(t) + 7

ExpectedUpcoming ==
    LET y == today.date[1]
        hits == SelectSeq(book, LAMBDA r :
                    /\ r.birthday # <<>>
                    /\ DateInWindow(<<y, r.birthday[2], r.birthday[3]>>, today.date))
    IN  [i \in 1..Len(hits) |-> <<hits[i].name, strftime(hits[i].birthday)>>]

\* C3: get_upcoming_birthdays returns, in insertion order, exactly the
\* records whose birthday re-anchored onto the current year is a date d
\* with today <= d <= today + 7 days, whatever the time of day.
C3_WindowInclusive ==
    (/\ AfterBirthdays
     /\ \A i \in 1..Len(book) :
          book[i].birthday # <<>> => ExistsInYear(book[i].birthday, today.date[1])) =>
        upcoming = ExpectedUpcoming

\* C7: with a 29 February birthday in the book and a common year, the
\* birthdays command still answers and reports every other record whose
\* re-anchored birthday lies in the window.
C7_Feb29Handled ==
    (/\ AfterBirthdays
     /\ \E i \in 1..Len(book) :
          book[i].birthday # <<>> /\ ~ExistsInYear(book[i].birthday, today.date[1])) =>
        /\ out # <<ErrorPrefix \o "day is out of range for month">>
        /\ \A i \in 1..Len(book) :
             (/\ book[i].birthday # <<>>
              /\ ExistsInYear(book[i].birthday, today.date[1])
              /\ toordinal(today.date) <
                   toordinal(<<today.date[1], book[i].birthday[2], book[i].birthday[3]>>)
              /\ DateInWindow(<<today.date[1], book[i].birthday[2], book[i].birthday[3]>>,
                              today.date)) =>
                 <<book[i].name, strftime(book[i].birthday)>> \in Range(upcoming)

\* C6: close/exit ends the loop with the book written to the file, and the
\* book loaded by the next run has the same names, phones and birthdays as
\* the book had at the exit.
C6_PersistsBetweenRuns ==
    [][/\ (/\ pc = "running"
           /\ Parsed[line'].ok
           /\ Cmd(line') \in {"close", "exit"}) =>
              /\ pc' = "exited"
              /\ file'.exists
              /\ book' = book
       /\ (pc = "exited" /\ pc' # "exited") =>
              /\ pc' = "running"
              /\ book' = book]_vars

\* a later run has loaded two contacts, with a phone and a birthday
C6_Witness ==
    /\ pc = "running"
    /\ runs >= 2
    /\ out = <<"Welcome to the assistant bot!">>
    /\ Len(book) = 2
    /\ \E i \in 1..Len(book) :
         book[i].phones # <<>> /\ book[i].birthday # <<>>

====
